---- MODULE Spec2Model ----
(***************************************************************************)
(* Task-management application: the Task API (packages/backend/src/app.js) *)
(* over its in-memory task table, and the client's task state hook         *)
(* (packages/frontend/src/hooks/useTasks.js) with its API client.          *)
(*                                                                         *)
(* Two specifications share the variables:                                 *)
(*   Spec      the Task API driven directly by arbitrary HTTP requests;    *)
(*   SpecHook  the hook, the API client, the network and the Task API.     *)
(***************************************************************************)
EXTENDS Integers, Sequences, FiniteSets, TLC

VARIABLES
  store,    \* rows of table tasks, in rowid (insertion) order
  clock,    \* Date.now() of the server process, in milliseconds
  uuids,    \* number of ids randomUUID() has handed out
  nreq,     \* number of requests the Task API has handled
  req,      \* the last request handled by the Task API
  resp,     \* its response
  prev,     \* the table as it was before that request
  tasks,    \* useTasks: state "tasks"
  loading,  \* useTasks: state "loading"
  error,    \* useTasks: state "error"
  filters,  \* useTasks: state "filters"
  net,      \* calls of the API client that have not returned yet
  calls,    \* number of hook operations started
  changes,  \* number of changes of the filters
  failed,   \* number of API client calls that have thrown
  ev        \* the last step taken by the hook

apiVars  == <<store, clock, uuids, nreq, req, resp, prev>>
hookVars == <<tasks, loading, error, filters, net, calls, changes, failed, ev>>
vars     == <<store, clock, uuids, nreq, req, resp, prev,
              tasks, loading, error, filters, net, calls, changes, failed, ev>>

(***************************************************************************)
(* Bounds of the model.                                                    *)
(***************************************************************************)
MaxReqs  == 2   \* requests handled by the Task API in one behaviour
MaxClock == 1   \* milliseconds the server clock advances
MaxCalls == 1   \* hook operations started in one behaviour
MaxChanges == 1 \* changes of the filters in one behaviour

(***************************************************************************)
(* JavaScript values.  A value is a record [t, v]: t is the type tag and v *)
(* a sequence of pieces.  A string is the sequence of its characters; a    *)
(* date literal is kept as one piece.  An array of strings is the sequence *)
(* of its elements.                                                        *)
(***************************************************************************)
Undef    == [t |-> "undef", v |-> <<>>]
Null     == [t |-> "null",  v |-> <<>>]
Str(s)   == [t |-> "str",   v |-> s]
Num(n)   == [t |-> "num",   v |-> <<n>>]
Bool(b)  == [t |-> "bool",  v |-> <<b>>]
Arr(a)   == [t |-> "arr",   v |-> a]

\* ToBoolean: !x is ~Truthy(x)
Truthy(x) ==
  CASE x.t = "undef" -> FALSE
    [] x.t = "null"  -> FALSE
    [] x.t = "str"   -> x.v # <<>>
    [] x.t = "num"   -> x.v # <<"0">>
    [] x.t = "bool"  -> x.v = <<"true">>
    [] OTHER         -> TRUE

\* White space as String.prototype.trim() sees it.
IsWhiteSpace(c) == c \in {" ", "\t", "\n", "\r"}

RECURSIVE TrimStart(_)
TrimStart(s) ==
  IF s = <<>> THEN s
  ELSE IF IsWhiteSpace(Head(s)) THEN TrimStart(Tail(s)) ELSE s

RECURSIVE TrimEnd(_)
TrimEnd(s) ==
  IF s = <<>> THEN s
  ELSE IF IsWhiteSpace(s[Len(s)]) THEN TrimEnd(SubSeq(s, 1, Len(s) - 1)) ELSE s

\* String.prototype.trim()
Trim(s) == TrimEnd(TrimStart(s))

\* JSON.stringify of a value other than undefined: the encoded text.
JsonStringify(x) ==
  CASE x.t = "null" -> Str(<<"n", "u", "l", "l">>)
    [] x.t = "str"  -> Str(<<"\"">> \o x.v \o <<"\"">>)
    [] x.t = "arr"  -> Str(<<"[">> \o x.v \o <<"]">>)
    [] OTHER        -> Str(x.v)

\* JSON.parse of a text produced by JSON.stringify.
JsonParse(s) ==
  LET e == s.v IN
  CASE e = <<"n", "u", "l", "l">>    -> Null
    [] e # <<>> /\ Head(e) = "\""    -> Str(SubSeq(e, 2, Len(e) - 1))
    [] e # <<>> /\ Head(e) = "["     -> Arr(SubSeq(e, 2, Len(e) - 1))
    [] e \in {<<"true">>, <<"false">>} -> [t |-> "bool", v |-> e]
    [] OTHER                         -> [t |-> "num", v |-> e]

(***************************************************************************)
(* Dates.  The date literals of the model, the time value Date.parse gives *)
(* each (minutes relative to 2025-01-01T00:00Z; NaN for the rest), and     *)
(* their order as TEXT in the table (byte-wise comparison).                *)
(***************************************************************************)
NaN == -100000

DateOffset   == <<"2025-01-01T00:30:00+02:00">>  \* = 2024-12-31T22:30Z
DateUtc      == <<"2025-01-01T00:00:00Z">>
DateTomorrow == <<"2025-01-02T00:00:00.000Z">>   \* initial task's due date
NotADate     == <<"not-a-date">>

\* Date.parse(s) for a string s
DateParse(x) ==
  CASE x.v = DateOffset   -> -90
    [] x.v = DateUtc      -> 0
    [] x.v = DateTomorrow -> 1440
    [] OTHER              -> NaN

\* Position of a text in byte-wise order, among the texts of the model.
TextRank(s) ==
  CASE s = <<>>         -> 0
    [] s = DateUtc      -> 1
    [] s = DateOffset   -> 2
    [] s = DateTomorrow -> 3
    [] OTHER            -> 4

(***************************************************************************)
(* The table.                                                              *)
(***************************************************************************)
PRIORITIES == {Str(<<"low">>), Str(<<"medium">>), Str(<<"high">>)}

Low    == Str(<<"low">>)
Medium == Str(<<"medium">>)
High   == Str(<<"high">>)

\* The id no task ever has ('non-existent-id').
NoId == 0

Ids(st) == {st[i].id : i \in 1..Len(st)}

\* SELECT * FROM tasks WHERE id = ?    (the set of matching rows)
SelectById(st, id) == {st[i] : i \in {j \in 1..Len(st) : st[j].id = id}}

\* What the handlers send for a row: completed as a boolean, tags parsed.
TaskJson(row) ==
  [row EXCEPT !.completed = IF row.completed # 0 THEN Bool("true") ELSE Bool("false"),
              !.tags = JsonParse(row.tags)]

initialTasks ==
  << [id |-> 1,
      title |-> Str(<<"C", "o", "m", "p", "l", "e", "t", "e", " ", "p", "r",
                      "o", "j", "e", "c", "t", " ", "d", "o", "c", "u", "m",
                      "e", "n", "t", "a", "t", "i", "o", "n">>),
      description |-> Str(<<>>), dueDate |-> Str(DateTomorrow),
      priority |-> High, tags |-> Str(<<"[", "]">>), completed |-> 0,
      createdAt |-> 0, updatedAt |-> 0],
     [id |-> 2,
      title |-> Str(<<"R", "e", "v", "i", "e", "w", " ", "p", "u", "l", "l",
                      " ", "r", "e", "q", "u", "e", "s", "t", "s">>),
      description |-> Str(<<>>), dueDate |-> Null,
      priority |-> Medium, tags |-> Str(<<"[", "]">>), completed |-> 0,
      createdAt |-> 0, updatedAt |-> 0],
     [id |-> 3,
      title |-> Str(<<"U", "p", "d", "a", "t", "e", " ", "d", "e", "p", "e",
                      "n", "d", "e", "n", "c", "i", "e", "s">>),
      description |-> Str(<<>>), dueDate |-> Null,
      priority |-> Low, tags |-> Str(<<"[", "]">>), completed |-> 0,
      createdAt |-> 0, updatedAt |-> 0] >>

(***************************************************************************)
(* Handlers of the Task API.  Each is a function of the table, the time    *)
(* and the request, and gives the new table, the status and the body.      *)
(***************************************************************************)
Reply(st, status, body) == [store |-> st, status |-> status, body |-> body]

ErrorBody(msg) == [error |-> msg]

\* Table values better-sqlite3 binds: numbers, strings and null.
Bindable(x) == x.t \in {"null", "str", "num"}

\* The priority check with null taken for an omitted priority.
PriorityInvalidNullAllowed(priority) == priority \notin PRIORITIES \cup {Null}

\* ['low', 'medium', 'high'].includes(priority)
PriorityInvalid(priority) == priority \notin PRIORITIES

\* The title check of create without the test of the trimmed title.
CreateTitleInvalidNoTrim(title) == ~Truthy(title) \/ title.t # "str"

\* !title || typeof title !== 'string' || title.trim() === ''
CreateTitleInvalid(title) ==
  ~Truthy(title) \/ title.t # "str" \/ Trim(title.v) = <<>>

\* dueDate && isNaN(Date.parse(dueDate))
CreateDueDateInvalid(dueDate) == Truthy(dueDate) /\ DateParse(dueDate) = NaN

\* The title check of update without the test of the trimmed title.
UpdateTitleInvalidNoTrim(title) == title # Undef /\ ~Truthy(title)

\* title !== undefined && (!title || title.trim() === ''), for a title on
\* which trim() does not throw
UpdateTitleInvalid(title) ==
  title # Undef /\ (~Truthy(title) \/ Trim(title.v) = <<>>)

\* The dueDate check of update written as create writes it, on truthiness.
UpdateDueDateInvalidTruthy(dueDate) ==
  Truthy(dueDate) /\ DateParse(dueDate) = NaN

\* dueDate !== undefined && dueDate !== null && isNaN(Date.parse(dueDate))
UpdateDueDateInvalid(dueDate) ==
  dueDate # Undef /\ dueDate # Null /\ DateParse(dueDate) = NaN

\* The row INSERTed with the title as it was sent.
NewRowUntrimmed(id, now, title, description, dueDate, priority, tags) ==
  [id |-> id, title |-> Str(title.v),
   description |-> Str(Trim(description.v)),
   dueDate |-> dueDate, priority |-> priority,
   tags |-> JsonStringify(tags), completed |-> 0,
   createdAt |-> now, updatedAt |-> now]

\* The row INSERTed by POST /api/tasks.
NewRow(id, now, title, description, dueDate, priority, tags) ==
  [id |-> id, title |-> Str(Trim(title.v)),
   description |-> Str(Trim(description.v)),
   dueDate |-> dueDate, priority |-> priority,
   tags |-> JsonStringify(tags), completed |-> 0,
   createdAt |-> now, updatedAt |-> now]

\* POST /api/tasks
PostTasks(st, now, id, body) ==
  LET title       == body.title
      description == IF body.description = Undef THEN Str(<<>>) ELSE body.description
      dueDate     == IF body.dueDate = Undef THEN Null ELSE body.dueDate
      priority    == IF body.priority = Undef THEN Medium ELSE body.priority
      tags        == IF body.tags = Undef THEN Arr(<<>>) ELSE body.tags
      row         == NewRow(id, now, title, description, dueDate, priority, tags)
  IN IF CreateTitleInvalid(title)
       THEN Reply(st, 400, ErrorBody("Task title is required and cannot be empty"))
     ELSE IF PriorityInvalid(priority)
       THEN Reply(st, 400, ErrorBody("Priority must be low, medium, or high"))
     ELSE IF CreateDueDateInvalid(dueDate)
       THEN Reply(st, 400, ErrorBody("Invalid due date format"))
     ELSE IF description.t # "str" \/ ~Bindable(dueDate)
       \* description.trim() or the binding of dueDate throws: the catch block
       THEN Reply(st, 500, ErrorBody("Failed to create task"))
     ELSE Reply(Append(st, row), 201, TaskJson(row))

\* The UPDATE with dueDate always among the columns set (no test of
\* dueDate !== undefined): an omitted dueDate is written as NULL.
UpdatedRowDueDateAlways(row, now, body) ==
  [row EXCEPT
     !.title       = IF body.title # Undef THEN Str(Trim(body.title.v)) ELSE @,
     !.description = IF body.description # Undef
                       THEN Str(Trim(body.description.v)) ELSE @,
     !.dueDate     = IF body.dueDate # Undef THEN body.dueDate ELSE Null,
     !.priority    = IF body.priority # Undef THEN body.priority ELSE @,
     !.tags        = IF body.tags # Undef THEN JsonStringify(body.tags) ELSE @,
     !.completed   = IF body.completed # Undef
                       THEN (IF Truthy(body.completed) THEN 1 ELSE 0) ELSE @,
     !.updatedAt   = now]

\* UPDATE tasks SET ... WHERE id = ?, as built by PUT /api/tasks/:id
UpdatedRow(row, now, body) ==
  [row EXCEPT
     !.title       = IF body.title # Undef THEN Str(Trim(body.title.v)) ELSE @,
     !.description = IF body.description # Undef
                       THEN Str(Trim(body.description.v)) ELSE @,
     !.dueDate     = IF body.dueDate # Undef THEN body.dueDate ELSE @,
     !.priority    = IF body.priority # Undef THEN body.priority ELSE @,
     !.tags        = IF body.tags # Undef THEN JsonStringify(body.tags) ELSE @,
     !.completed   = IF body.completed # Undef
                       THEN (IF Truthy(body.completed) THEN 1 ELSE 0) ELSE @,
     !.updatedAt   = now]

\* PUT /api/tasks/:id
PutTask(st, now, id, body) ==
  LET existing == SelectById(st, id)
      newSt    == [i \in 1..Len(st) |->
                     IF st[i].id = id THEN UpdatedRow(st[i], now, body) ELSE st[i]]
  IN IF existing = {}
       THEN Reply(st, 404, ErrorBody("Task not found"))
     ELSE IF body.title # Undef /\ Truthy(body.title) /\ body.title.t # "str"
       \* title.trim is not a function: the catch block
       THEN Reply(st, 500, ErrorBody("Failed to update task"))
     ELSE IF UpdateTitleInvalid(body.title)
       THEN Reply(st, 400, ErrorBody("Task title cannot be empty"))
     ELSE IF body.priority # Undef /\ PriorityInvalid(body.priority)
       THEN Reply(st, 400, ErrorBody("Priority must be low, medium, or high"))
     ELSE IF UpdateDueDateInvalid(body.dueDate)
       THEN Reply(st, 400, ErrorBody("Invalid due date format"))
     ELSE IF (body.description # Undef /\ body.description.t # "str")
             \/ (body.dueDate # Undef /\ ~Bindable(body.dueDate))
       THEN Reply(st, 500, ErrorBody("Failed to update task"))
     ELSE Reply(newSt, 200, TaskJson(CHOOSE r \in SelectById(newSt, id) : TRUE))

\* The toggle UPDATE with completed = 1 in place of the negation.
ToggledRowAlwaysCompleted(row, now) ==
  [row EXCEPT !.completed = 1, !.updatedAt = now]

\* UPDATE tasks SET completed = ?, updatedAt = ? WHERE id = ?
ToggledRow(row, now) ==
  [row EXCEPT !.completed = IF row.completed # 0 THEN 0 ELSE 1,
              !.updatedAt = now]

\* PATCH /api/tasks/:id/toggle
PatchToggle(st, now, id) ==
  LET existing == SelectById(st, id)
      newSt    == [i \in 1..Len(st) |->
                     IF st[i].id = id THEN ToggledRow(st[i], now) ELSE st[i]]
  IN IF existing = {}
       THEN Reply(st, 404, ErrorBody("Task not found"))
       ELSE Reply(newSt, 200, TaskJson(CHOOSE r \in SelectById(newSt, id) : TRUE))

\* The DELETE without its WHERE clause.
DeleteRowNoWhere(st, id) == <<>>

\* DELETE FROM tasks WHERE id = ?
DeleteRow(st, id) == SelectSeq(st, LAMBDA r : r.id # id)

\* DELETE /api/tasks/:id
DeleteTask(st, id) ==
  IF SelectById(st, id) = {}
    THEN Reply(st, 404, ErrorBody("Task not found"))
    ELSE Reply(DeleteRow(st, id), 200,
               [message |-> "Task deleted successfully", id |-> id])

\* An element of taskIds that better-sqlite3 refuses to bind (JSON true).
BadId == -1

\* The bulk UPDATE setting createdAt along with updatedAt.
CompletedRowTouchesCreatedAt(row, now, c) ==
  [row EXCEPT !.completed = c, !.updatedAt = now, !.createdAt = now]

\* UPDATE tasks SET completed = c, updatedAt = ? WHERE id = ?
CompletedRow(row, now, c) == [row EXCEPT !.completed = c, !.updatedAt = now]

\* One statement of the bulk loop without its WHERE clause.
BulkStepNoWhere(st, now, action, id) ==
  CASE action = "complete" ->
         [i \in 1..Len(st) |-> CompletedRow(st[i], now, 1)]
    [] action = "uncomplete" ->
         [i \in 1..Len(st) |-> CompletedRow(st[i], now, 0)]
    [] OTHER -> <<>>

\* One statement of the bulk loop, on one id.
BulkStep(st, now, action, id) ==
  CASE action = "complete" ->
         [i \in 1..Len(st) |->
            IF st[i].id = id THEN CompletedRow(st[i], now, 1) ELSE st[i]]
    [] action = "uncomplete" ->
         [i \in 1..Len(st) |->
            IF st[i].id = id THEN CompletedRow(st[i], now, 0) ELSE st[i]]
    [] OTHER -> DeleteRow(st, id)

\* taskIds.forEach(id => stmt.run(...)): the table after the loop, and
\* whether a run() threw (the statements already run stay applied).
RECURSIVE BulkLoop(_, _, _, _)
BulkLoop(st, now, action, ids) ==
  IF ids = <<>> THEN [store |-> st, threw |-> FALSE]
  ELSE IF Head(ids) = BadId THEN [store |-> st, threw |-> TRUE]
  ELSE BulkLoop(BulkStep(st, now, action, Head(ids)), now, action, Tail(ids))

\* The taskIds check without the test of the length.
TaskIdsInvalidEmptyAllowed(taskIds) == taskIds.t # "arr"

\* !Array.isArray(taskIds) || taskIds.length === 0
TaskIdsInvalid(taskIds) == taskIds.t # "arr" \/ Len(taskIds.v) = 0

\* POST /api/tasks/bulk
PostBulk(st, now, body) ==
  LET taskIds == body.taskIds
      n       == Len(taskIds.v)
      loop    == BulkLoop(st, now, body.action, taskIds.v)
  IN IF TaskIdsInvalid(taskIds)
       THEN Reply(st, 400, ErrorBody("taskIds must be a non-empty array"))
     ELSE IF body.action \notin {"complete", "uncomplete", "delete"}
       THEN Reply(st, 400,
                  ErrorBody("Invalid action. Must be complete, uncomplete, or delete"))
     ELSE IF loop.threw
       THEN Reply(loop.store, 500, ErrorBody("Failed to perform bulk action"))
     ELSE Reply(loop.store, 200,
                [message |-> IF body.action = "delete" THEN "tasks deleted"
                                                       ELSE "tasks updated",
                 count |-> n])

(***************************************************************************)
(* GET /api/tasks: filters, LIKE search and ORDER BY.                      *)
(***************************************************************************)
UpperCase == <<"A", "B", "C", "D", "E", "F", "G", "H", "I", "J", "K", "L", "M",
               "N", "O", "P", "Q", "R", "S", "T", "U", "V", "W", "X", "Y", "Z">>
LowerCase == <<"a", "b", "c", "d", "e", "f", "g", "h", "i", "j", "k", "l", "m",
               "n", "o", "p", "q", "r", "s", "t", "u", "v", "w", "x", "y", "z">>

\* LIKE folds the case of the ASCII letters only.
Fold(c) ==
  IF \E i \in 1..26 : UpperCase[i] = c
    THEN LowerCase[CHOOSE i \in 1..26 : UpperCase[i] = c]
    ELSE c

\* text LIKE pattern: % matches any run of characters, _ any one character.
RECURSIVE Like(_, _)
Like(text, pattern) ==
  IF pattern = <<>> THEN text = <<>>
  ELSE IF Head(pattern) = "%"
    THEN Like(text, Tail(pattern)) \/ (text # <<>> /\ Like(Tail(text), pattern))
  ELSE IF text = <<>> THEN FALSE
  ELSE IF Head(pattern) = "_" THEN Like(Tail(text), Tail(pattern))
  ELSE Fold(Head(pattern)) = Fold(Head(text)) /\ Like(Tail(text), Tail(pattern))

\* The WHERE clause built with the priority filter as one more else-if of
\* the status filter.
WhereElseIf(row, query) ==
  /\ (query.status = Str(<<"active">>)) => row.completed = 0
  /\ (query.status = Str(<<"completed">>)) => row.completed = 1
  /\ (/\ query.status \notin {Str(<<"active">>), Str(<<"completed">>)}
      /\ Truthy(query.priority)) => row.priority = query.priority
  /\ Truthy(query.search) =>
       LET pattern == <<"%">> \o query.search.v \o <<"%">>
       IN Like(row.title.v, pattern) \/ Like(row.description.v, pattern)

\* The WHERE clause built from the query parameters.
Where(row, query) ==
  /\ (query.status = Str(<<"active">>)) => row.completed = 0
  /\ (query.status = Str(<<"completed">>)) => row.completed = 1
  /\ Truthy(query.priority) => row.priority = query.priority
  /\ Truthy(query.search) =>
       LET pattern == <<"%">> \o query.search.v \o <<"%">>
       IN Like(row.title.v, pattern) \/ Like(row.description.v, pattern)

\* The priority ORDER BY term as the text of the priority, without the CASE.
PriorityOrderAsText(row) ==
  CASE row.priority = High   -> 1
    [] row.priority = Low    -> 2
    [] row.priority = Medium -> 3
    [] OTHER                 -> 0

\* CASE priority WHEN 'high' THEN 1 WHEN 'medium' THEN 2 WHEN 'low' THEN 3 END
\* (NULL, which sorts first, for any other value)
PriorityOrder(row) ==
  CASE row.priority = High   -> 1
    [] row.priority = Medium -> 2
    [] row.priority = Low    -> 3
    [] OTHER                 -> 0

\* CASE WHEN dueDate IS NULL THEN 1 ELSE 0 END
DueDateIsNull(row) == IF row.dueDate = Null THEN 1 ELSE 0

\* dueDate as an ORDER BY term: NULL sorts before every text.
DueDateOrder(row) == IF row.dueDate = Null THEN -1 ELSE TextRank(row.dueDate.v)

\* The ORDER BY terms of a row, all ascending.
OrderKey(row, sortBy) ==
  CASE sortBy = Str(<<"dueDate">>)   -> <<DueDateIsNull(row), DueDateOrder(row)>>
    [] sortBy = Str(<<"priority">>)  -> <<PriorityOrder(row)>>
    [] sortBy = Str(<<"createdAt">>) -> <<0 - row.createdAt>>
    [] OTHER -> <<DueDateIsNull(row), DueDateOrder(row), PriorityOrder(row),
                  0 - row.createdAt>>

RECURSIVE KeyLess(_, _)
KeyLess(a, b) ==
  IF a = <<>> THEN FALSE
  ELSE IF Head(a) # Head(b) THEN Head(a) < Head(b)
  ELSE KeyLess(Tail(a), Tail(b))

\* Insert row after the rows that do not sort after it.
RECURSIVE InsertRow(_, _, _)
InsertRow(sorted, row, sortBy) ==
  IF sorted = <<>> THEN <<row>>
  ELSE IF KeyLess(OrderKey(row, sortBy), OrderKey(Head(sorted), sortBy))
    THEN <<row>> \o sorted
    ELSE <<Head(sorted)>> \o InsertRow(Tail(sorted), row, sortBy)

\* ORDER BY: rows with equal terms stay in rowid order.
RECURSIVE OrderBy(_, _)
OrderBy(rows, sortBy) ==
  IF rows = <<>> THEN <<>>
  ELSE InsertRow(OrderBy(SubSeq(rows, 1, Len(rows) - 1), sortBy),
                 rows[Len(rows)], sortBy)

\* GET /api/tasks
GetTasks(st, query) ==
  LET sortBy   == IF query.sortBy = Undef THEN Str(<<"default">>) ELSE query.sortBy
      selected == SelectSeq(st, LAMBDA row : Where(row, query))
      rows     == OrderBy(selected, sortBy)
  IN Reply(st, 200, [i \in 1..Len(rows) |-> TaskJson(rows[i])])

(***************************************************************************)
(* Requests sent to the Task API.                                          *)
(***************************************************************************)
Body(title, description, dueDate, priority, tags, completed) ==
  [title |-> title, description |-> description, dueDate |-> dueDate,
   priority |-> priority, tags |-> tags, completed |-> completed]

EmptyBody == Body(Undef, Undef, Undef, Undef, Undef, Undef)

TitleA == Str(<<"a">>)

\* A body that also carries an id and a createdAt, which the destructuring
\* of req.body leaves aside.
BodyWithIdCreatedAt ==
  [title |-> Undef, description |-> Undef, dueDate |-> Undef,
   priority |-> Undef, tags |-> Undef, completed |-> Bool("true"),
   id |-> 9, createdAt |-> 7]

\* Bodies of POST /api/tasks: one field varied at a time around {title: 'a'}.
CreateBodies ==
  {[EmptyBody EXCEPT !.title = t] :
     t \in {Undef, Num("5"), Str(<<>>), Str(<<" ", "\t">>),
            Str(<<" ", "a", " ">>), Str(<<"A">>)}}
  \cup {[EmptyBody EXCEPT !.title = TitleA, !.priority = p] :
     p \in {Null, Str(<<"urgent">>), Low, High}}
  \cup {[EmptyBody EXCEPT !.title = TitleA, !.dueDate = d] :
     d \in {Null, Str(<<>>), Str(NotADate), Str(DateOffset), Str(DateUtc)}}
  \cup {[EmptyBody EXCEPT !.title = TitleA, !.description = d] :
     d \in {Str(<<" ", "b">>), Null}}
  \cup {[EmptyBody EXCEPT !.title = TitleA, !.tags = g] :
     g \in {Arr(<<"x", "y">>), Null}}
  \cup {[EmptyBody EXCEPT !.title = Str(<<" ">>), !.priority = Str(<<"urgent">>)]}

\* Bodies of PUT /api/tasks/:id: at most one field supplied.
UpdateBodies ==
  {EmptyBody}
  \cup {[EmptyBody EXCEPT !.title = t] :
     t \in {Null, Num("5"), Str(<<>>), Str(<<" ">>), Str(<<" ", "b", " ">>)}}
  \cup {[EmptyBody EXCEPT !.priority = p] : p \in {Null, Str(<<"urgent">>), Low}}
  \cup {[EmptyBody EXCEPT !.dueDate = d] :
     d \in {Null, Str(<<>>), Str(NotADate), Str(DateUtc)}}
  \cup {[EmptyBody EXCEPT !.description = Str(<<"c", " ">>)],
        [EmptyBody EXCEPT !.tags = Arr(<<"z">>)],
        [EmptyBody EXCEPT !.completed = Bool("true")],
        [EmptyBody EXCEPT !.completed = Bool("false")],
        [EmptyBody EXCEPT !.title = Num("5"), !.priority = Str(<<"urgent">>)],
        BodyWithIdCreatedAt}

\* Ids named in the path of a request: an id no task has, an initial task
\* and the first task created.
TargetIds == {NoId, 1, 4}

BulkBodies ==
  {[action |-> a, taskIds |-> Arr(ids)] :
     a \in {"complete", "uncomplete", "delete"},
     ids \in {<<1, 2>>, <<2, NoId>>, <<2, BadId, 1>>}}
  \cup {[action |-> "complete", taskIds |-> Arr(<<>>)],
        [action |-> "complete", taskIds |-> Undef],
        [action |-> "delete", taskIds |-> Str(<<"1">>)],
        [action |-> "archive", taskIds |-> Arr(<<1>>)]}

Query(status, priority, search, sortBy) ==
  [status |-> status, priority |-> priority, search |-> search, sortBy |-> sortBy]

Queries ==
  {Query(s, Undef, Undef, Undef) :
     s \in {Undef, Str(<<"all">>), Str(<<"active">>), Str(<<"completed">>)}}
  \cup {Query(Undef, High, Undef, Undef),
        Query(Str(<<"active">>), High, Undef, Undef),
        Query(Str(<<"completed">>), High, Undef, Undef),
        Query(Undef, Undef, Str(<<"A">>), Undef),
        Query(Undef, Undef, Str(<<"z", "z">>), Undef),
        Query(Undef, Undef, Str(<<"_">>), Undef)}
  \cup {Query(Undef, Undef, Undef, Str(<<o>>)) :
     o \in {"dueDate", "priority", "createdAt", "default"}}

(***************************************************************************)
(* Initial state: the table holds the three sample tasks; the hook holds   *)
(* the initial values of its useState calls.                               *)
(***************************************************************************)
NoRequest  == [op |-> "none", id |-> NoId, body |-> <<>>]
NoResponse == [status |-> 0, body |-> <<>>]

defaultFilters ==
  [status |-> Str(<<"all">>), priority |-> Null, search |-> Str(<<>>),
   sortBy |-> Str(<<"default">>)]

NoCall == [n |-> -1, op |-> "none", id |-> NoId]

\* A step of the hook: its kind, the API client call it belongs to and, for
\* a step that starts a mutation, the local list before the step.
Event(kind, call, before) == [kind |-> kind, call |-> call, before |-> before]

NoEvent == Event("init", NoCall, <<>>)

Init ==
  /\ store = initialTasks
  /\ clock = 0
  /\ uuids = 3
  /\ nreq = 0
  /\ req = NoRequest
  /\ resp = NoResponse
  /\ prev = initialTasks
  /\ tasks = <<>>
  /\ loading = FALSE
  /\ error = Null
  /\ filters = defaultFilters
  /\ net = {}
  /\ calls = 0
  /\ changes = 0
  /\ failed = 0
  /\ ev = NoEvent

(***************************************************************************)
(* Spec: the Task API handles one request at a time.                       *)
(***************************************************************************)
\* The request r is handled and answered with reply.
Handle(r, reply) ==
  /\ nreq < MaxReqs
  /\ nreq' = nreq + 1
  /\ req' = r
  /\ prev' = store
  /\ store' = reply.store
  /\ resp' = [status |-> reply.status, body |-> reply.body]
  /\ UNCHANGED <<clock, tasks, loading, error, filters, net, calls, changes,
                 failed, ev>>

\* Time passes on the server.
Tick ==
  /\ clock < MaxClock
  /\ clock' = clock + 1
  /\ UNCHANGED <<store, uuids, nreq, req, resp, prev>>
  /\ UNCHANGED hookVars

ApiList ==
  \E q \in Queries :
    /\ Handle([op |-> "list", id |-> NoId, body |-> q], GetTasks(store, q))
    /\ UNCHANGED uuids

ApiCreate ==
  \E b \in CreateBodies :
    LET reply == PostTasks(store, clock, uuids + 1, b) IN
    /\ Handle([op |-> "create", id |-> NoId, body |-> b], reply)
    \* randomUUID() is called once the body has passed validation
    /\ uuids' = IF reply.status = 400 THEN uuids ELSE uuids + 1

ApiUpdate ==
  \E id \in TargetIds, b \in UpdateBodies :
    /\ Handle([op |-> "update", id |-> id, body |-> b], PutTask(store, clock, id, b))
    /\ UNCHANGED uuids

\* The toggle handler with its SELECT run before the request handled before
\* it wrote: the UPDATE writes the negation of a value read too early.
ApiToggleStaleRead ==
  \E id \in TargetIds :
    /\ Handle([op |-> "toggle", id |-> id, body |-> <<>>],
              IF id \in Ids(prev) \cap Ids(store)
                THEN LET stale == PatchToggle(prev, clock, id)
                     IN Reply([i \in 1..Len(store) |->
                                 IF store[i].id = id
                                   THEN CHOOSE r \in SelectById(stale.store, id) : TRUE
                                   ELSE store[i]],
                              200, stale.body)
                ELSE PatchToggle(store, clock, id))
    /\ UNCHANGED uuids

ApiToggle ==
  \E id \in TargetIds :
    /\ Handle([op |-> "toggle", id |-> id, body |-> <<>>], PatchToggle(store, clock, id))
    /\ UNCHANGED uuids

ApiDelete ==
  \E id \in TargetIds :
    /\ Handle([op |-> "delete", id |-> id, body |-> <<>>], DeleteTask(store, id))
    /\ UNCHANGED uuids

ApiBulk ==
  \E b \in BulkBodies :
    /\ Handle([op |-> "bulk", id |-> NoId, body |-> b], PostBulk(store, clock, b))
    /\ UNCHANGED uuids

Next ==
  \/ Tick
  \/ ApiList
  \/ ApiCreate
  \/ ApiUpdate
  \/ ApiToggle
  \/ ApiDelete
  \/ ApiBulk

Spec == Init /\ [][Next]_vars

(***************************************************************************)
(* The API client (apiClient.js) and the network.  A call of the client    *)
(* is "sent" until the Task API has handled it or the network has failed   *)
(* it, then "answered" or "failed" until the awaiting code resumes.        *)
(***************************************************************************)
NoParent == [op |-> "none", id |-> NoId, msg |-> ""]

\* A call of the API client made by the hook.  filters is the filter state
\* in the closure of the fetchTasks the caller holds; parent names the
\* mutation whose handler called fetchTasks, if any.
Call(n, op, id, body, fs, cause, parent) ==
  [n |-> n, op |-> op, id |-> id, body |-> body, filters |-> fs,
   cause |-> cause, parent |-> parent,
   phase |-> "sent", status |-> 0, reply |-> <<>>]

\* apiRequest throws: fetch rejected, or the response is not ok.
Threw(c) == c.phase = "failed" \/ c.status >= 400

\* The message of the Error apiRequest throws.
Message(c) == IF c.phase = "failed" THEN "Failed to fetch" ELSE c.reply.error

\* filterParams with the status always among its keys.
FilterParamsStatusAlways(fs) ==
  Query(fs.status,
        IF Truthy(fs.priority) THEN fs.priority ELSE Undef,
        IF Truthy(fs.search) THEN fs.search ELSE Undef,
        IF Truthy(fs.sortBy) THEN fs.sortBy ELSE Undef)

\* filterParams, as fetchTasks builds it from its filters
FilterParams(fs) ==
  Query(IF fs.status # Str(<<"all">>) THEN fs.status ELSE Undef,
        IF Truthy(fs.priority) THEN fs.priority ELSE Undef,
        IF Truthy(fs.search) THEN fs.search ELSE Undef,
        IF Truthy(fs.sortBy) THEN fs.sortBy ELSE Undef)

\* getTasks(filters): only truthy values are appended to the URL
getTasks(params) ==
  Query(IF Truthy(params.status) THEN params.status ELSE Undef,
        IF Truthy(params.priority) THEN params.priority ELSE Undef,
        IF Truthy(params.search) THEN params.search ELSE Undef,
        IF Truthy(params.sortBy) THEN params.sortBy ELSE Undef)

\* The request fetchTasks sends for the filters fs.
FetchCall(n, fs, cause, parent) ==
  Call(n, "list", NoId, getTasks(FilterParams(fs)), fs, cause, parent)

\* The Task API's reply to a call, at time now.
ServerReply(c, st, now, id) ==
  CASE c.op = "list"   -> GetTasks(st, c.body)
    [] c.op = "create" -> PostTasks(st, now, id, c.body)
    [] c.op = "update" -> PutTask(st, now, c.id, c.body)
    [] c.op = "toggle" -> PatchToggle(st, now, c.id)
    [] c.op = "delete" -> DeleteTask(st, c.id)
    [] OTHER           -> PostBulk(st, now, c.body)

\* The Task API handles a call that is on its way.  Requests other than List
\* are handled at least a millisecond apart.
ServerHandle ==
  \E c \in net :
    /\ c.phase = "sent"
    /\ LET now   == IF c.op = "list" THEN clock ELSE clock + 1
           reply == ServerReply(c, store, now, uuids + 1)
       IN /\ store' = reply.store
          /\ clock' = now
          /\ uuids' = IF c.op = "create" /\ reply.status # 400 THEN uuids + 1 ELSE uuids
          /\ net' = (net \ {c}) \cup
                    {[c EXCEPT !.phase = "answered", !.status = reply.status,
                               !.reply = reply.body]}
          /\ ev' = Event("handled", [c EXCEPT !.status = reply.status], <<>>)
    /\ UNCHANGED <<nreq, req, resp, prev>>
    /\ UNCHANGED <<tasks, loading, error, filters, calls, changes, failed>>

\* fetch() rejects: the request never reaches the Task API.
NetFail ==
  \E c \in net :
    /\ c.phase = "sent"
    /\ net' = (net \ {c}) \cup {[c EXCEPT !.phase = "failed"]}
    /\ ev' = Event("netfail", c, <<>>)
    /\ UNCHANGED apiVars
    /\ UNCHANGED <<tasks, loading, error, filters, calls, changes, failed>>

(***************************************************************************)
(* The hook useTasks.  Each action is one run of its code on the event     *)
(* loop: from the call of an operation to its first await, or from the     *)
(* return of an awaited call to the next await or the end.                 *)
(***************************************************************************)
\* Operations of the hook started from the user interface.
NewTask ==
  Body(Str(<<"N", "e", "w", " ", "T", "a", "s", "k">>), Str(<<>>), Undef,
       Medium, Undef, Undef)

HookUpdates ==
  {[EmptyBody EXCEPT !.title = Str(<<"b", " ">>)],
   [EmptyBody EXCEPT !.title = Str(<<>>)]}

HookIds == {1, 2}

HookBulk ==
  {[action |-> "complete", taskIds |-> Arr(<<1, 2>>)],
   [action |-> "delete", taskIds |-> Arr(<<2>>)]}

NewFilters ==
  {[status |-> Str(<<"active">>)], [status |-> Str(<<"completed">>)],
   [priority |-> High]}

\* { ...prev, ...newFilters }
Merge(old, new) ==
  [k \in DOMAIN old |-> IF k \in DOMAIN new THEN new[k] ELSE old[k]]

\* { ...task, ...updates }: the fields the updates carry
Patched(task, updates) ==
  [task EXCEPT
     !.title       = IF updates.title # Undef THEN updates.title ELSE @,
     !.description = IF updates.description # Undef THEN updates.description ELSE @,
     !.dueDate     = IF updates.dueDate # Undef THEN updates.dueDate ELSE @,
     !.priority    = IF updates.priority # Undef THEN updates.priority ELSE @,
     !.tags        = IF updates.tags # Undef THEN updates.tags ELSE @,
     !.completed   = IF updates.completed # Undef THEN updates.completed ELSE @]

\* { ...task, completed: !task.completed }
Flipped(task) ==
  [task EXCEPT !.completed = IF Truthy(@) THEN Bool("false") ELSE Bool("true")]

\* prev.map(task => task.id === id ? updatedTask : task)
Replaced(list, id, updatedTask) ==
  [i \in 1..Len(list) |-> IF list[i].id = id THEN updatedTask ELSE list[i]]

\* prev.filter(task => task.id !== id)
Removed(list, id) == SelectSeq(list, LAMBDA t : t.id # id)

\* setTasks(fetchedTasks) only when the fetch was made for the active filters.
FetchedTasksIfCurrent(list, c) == IF c.filters = filters THEN c.reply ELSE list

\* setTasks(fetchedTasks), at the return of api.getTasks
FetchedTasks(list, c) == c.reply

\* An operation of the hook makes the call c of the API client.
Started(c, before) ==
  /\ calls < MaxCalls
  /\ ev.kind # "init"
  /\ calls' = calls + 1
  /\ UNCHANGED changes
  /\ net' = net \cup {c}
  /\ ev' = Event("started", c, before)
  /\ UNCHANGED failed
  /\ UNCHANGED apiVars

\* The filters have changed: the effect runs the new fetchTasks, which makes
\* the call c.
Changed(c) ==
  /\ changes < MaxChanges
  /\ ev.kind # "init"
  /\ changes' = changes + 1
  /\ net' = net \cup {c}
  /\ ev' = Event("started", c, <<>>)
  /\ UNCHANGED <<calls, failed>>
  /\ UNCHANGED apiVars

\* useEffect(() => { fetchTasks(); }, [fetchTasks]) on mount
Mount ==
  /\ ev.kind = "init"
  /\ loading' = TRUE
  /\ error' = Null
  /\ net' = net \cup {FetchCall(0, filters, "effect", NoParent)}
  /\ ev' = Event("mount", NoCall, <<>>)
  /\ UNCHANGED <<tasks, filters, calls, changes, failed>>
  /\ UNCHANGED apiVars

\* updateFilters(newFilters), the render and the effect that runs fetchTasks
updateFilters ==
  \E new \in NewFilters :
    /\ filters' = Merge(filters, new)
    /\ loading' = TRUE
    /\ error' = Null
    /\ Changed(FetchCall(changes + 21, filters', "effect", NoParent))
    /\ UNCHANGED tasks

\* clearFilters(), the render and the effect that runs fetchTasks
clearFilters ==
  /\ filters' = defaultFilters
  /\ loading' = TRUE
  /\ error' = Null
  /\ Changed(FetchCall(changes + 21, filters', "effect", NoParent))
  /\ UNCHANGED tasks

\* refetch(): fetchTasks called by the user of the hook
refetch ==
  /\ loading' = TRUE
  /\ error' = Null
  /\ Started(FetchCall(calls + 1, filters, "refetch", NoParent), <<>>)
  /\ UNCHANGED <<tasks, filters>>

\* addTask(taskData) up to await api.createTask
addTask ==
  /\ error' = Null
  /\ Started(Call(calls + 1, "create", NoId, NewTask, filters, "user", NoParent), tasks)
  /\ UNCHANGED <<tasks, loading, filters>>

\* updateTaskData(id, updates) up to await api.updateTask
updateTaskData ==
  \E id \in HookIds, updates \in HookUpdates :
    /\ error' = Null
    /\ tasks' = [i \in 1..Len(tasks) |->
                   IF tasks[i].id = id THEN Patched(tasks[i], updates) ELSE tasks[i]]
    /\ Started(Call(calls + 1, "update", id, updates, filters, "user", NoParent), tasks)
    /\ UNCHANGED <<loading, filters>>

\* toggleTaskCompletion(id) up to await api.toggleTask
toggleTaskCompletion ==
  \E id \in HookIds :
    /\ error' = Null
    /\ tasks' = [i \in 1..Len(tasks) |->
                   IF tasks[i].id = id THEN Flipped(tasks[i]) ELSE tasks[i]]
    /\ Started(Call(calls + 1, "toggle", id, <<>>, filters, "user", NoParent), tasks)
    /\ UNCHANGED <<loading, filters>>

\* removeTask(id) up to await api.deleteTask
removeTask ==
  \E id \in HookIds :
    /\ error' = Null
    /\ tasks' = Removed(tasks, id)
    /\ Started(Call(calls + 1, "delete", id, <<>>, filters, "user", NoParent), tasks)
    /\ UNCHANGED <<loading, filters>>

\* performBulkAction(action, taskIds) up to await api.bulkAction
performBulkAction ==
  \E b \in HookBulk :
    /\ error' = Null
    /\ Started(Call(calls + 1, "bulk", NoId, b, filters, "user", NoParent), tasks)
    /\ UNCHANGED <<tasks, loading, filters>>

\* A call has returned or thrown: c leaves the network and the hook's step
\* is recorded.
Resumed(c, kind, more) ==
  /\ net' = (net \ {c}) \cup more
  /\ failed' = IF Threw(c) THEN failed + 1 ELSE failed
  /\ ev' = Event(kind, c, <<>>)
  /\ UNCHANGED <<filters, calls, changes>>
  /\ UNCHANGED apiVars

\* fetchTasks from the return of api.getTasks: try, catch and finally
fetchTasksResumed ==
  \E c \in net :
    /\ c.phase # "sent"
    /\ c.op = "list"
    /\ tasks' = IF Threw(c) THEN tasks ELSE FetchedTasks(tasks, c)
    /\ error' = IF Threw(c) THEN Str(<<Message(c)>>) ELSE error
    /\ loading' = FALSE
    /\ Resumed(c, "done", {})

\* addTask from the return of api.createTask
addTaskResumed ==
  \E c \in net :
    /\ c.phase # "sent"
    /\ c.op = "create"
    /\ tasks' = IF Threw(c) THEN tasks ELSE <<c.reply>> \o tasks
    /\ error' = IF Threw(c) THEN Str(<<Message(c)>>) ELSE error
    /\ Resumed(c, "done", {})
    /\ UNCHANGED loading

\* The catch block of updateTaskData, toggleTaskCompletion and removeTask up
\* to await fetchTasks(): setError(err.message), then fetchTasks sets
\* loading, clears error and calls api.getTasks with the filters of its
\* closure.
Rollback(c) ==
  /\ loading' = TRUE
  /\ error' = Null
  /\ Resumed(c, "rollback",
             {FetchCall(c.n + 10, c.filters, "rollback",
                        [op |-> c.op, id |-> c.id, msg |-> Message(c)])})
  /\ UNCHANGED tasks

\* updateTaskData and toggleTaskCompletion from the return of the API call
updateTaskResumed ==
  \E c \in net :
    /\ c.phase # "sent"
    /\ c.op \in {"update", "toggle"}
    /\ IF Threw(c)
         THEN Rollback(c)
         ELSE /\ tasks' = Replaced(tasks, c.id, c.reply)
              /\ Resumed(c, "done", {})
              /\ UNCHANGED <<loading, error>>

\* removeTask from the return of api.deleteTask
removeTaskResumed ==
  \E c \in net :
    /\ c.phase # "sent"
    /\ c.op = "delete"
    /\ IF Threw(c)
         THEN Rollback(c)
         ELSE /\ Resumed(c, "done", {})
              /\ UNCHANGED <<tasks, loading, error>>

\* performBulkAction from the return of api.bulkAction, without the call of
\* fetchTasks.
performBulkActionResumedNoRefetch ==
  \E c \in net :
    /\ c.phase # "sent"
    /\ c.op = "bulk"
    /\ error' = IF Threw(c) THEN Str(<<Message(c)>>) ELSE error
    /\ Resumed(c, "done", {})
    /\ UNCHANGED <<tasks, loading>>

\* performBulkAction from the return of api.bulkAction: fetchTasks is called
\* when it returned, the error is set when it threw
performBulkActionResumed ==
  \E c \in net :
    /\ c.phase # "sent"
    /\ c.op = "bulk"
    /\ IF Threw(c)
         THEN /\ error' = Str(<<Message(c)>>)
              /\ Resumed(c, "done", {})
              /\ UNCHANGED <<tasks, loading>>
         ELSE /\ loading' = TRUE
              /\ error' = Null
              /\ Resumed(c, "refresh",
                         {FetchCall(c.n + 10, c.filters, "bulk",
                                    [op |-> c.op, id |-> c.id, msg |-> ""])})
              /\ UNCHANGED tasks

NextHook ==
  \/ Mount
  \/ updateFilters
  \/ clearFilters
  \/ refetch
  \/ addTask
  \/ updateTaskData
  \/ toggleTaskCompletion
  \/ removeTask
  \/ performBulkAction
  \/ ServerHandle
  \/ NetFail
  \/ fetchTasksResumed
  \/ addTaskResumed
  \/ updateTaskResumed
  \/ removeTaskResumed
  \/ performBulkActionResumed

SpecHook == Init /\ [][NextHook]_vars

(***************************************************************************)
(* Properties of the Task API (checked under Spec).                        *)
(***************************************************************************)
AllWhiteSpace(s) == \A i \in 1..Len(s) : IsWhiteSpace(s[i])

\* t is s without its leading and trailing white space
IsTrimOf(t, s) ==
  /\ t = <<>> \/ (~IsWhiteSpace(t[1]) /\ ~IsWhiteSpace(t[Len(t)]))
  /\ \E a \in 0..Len(s) :
       /\ a + Len(t) <= Len(s)
       /\ SubSeq(s, a + 1, a + Len(t)) = t
       /\ AllWhiteSpace(SubSeq(s, 1, a))
       /\ AllWhiteSpace(SubSeq(s, a + Len(t) + 1, Len(s)))

Rejected == resp.status >= 400 /\ store = prev

NoFilter == Query(Undef, Undef, Undef, Undef)

\* The tasks a List without filters returns.
Listed(st) == LET l == GetTasks(st, NoFilter).body IN {l[i] : i \in 1..Len(l)}

\* C6: a create whose title is missing, not a string, empty or white space
\* only, or whose priority is outside {low, medium, high}, is answered with
\* 400 and leaves the table as it was.
C6_CreateValidation ==
  (/\ req.op = "create"
   /\ \/ req.body.title.t # "str"
      \/ AllWhiteSpace(req.body.title.v)
      \/ (req.body.priority # Undef
          /\ req.body.priority \notin {Str(<<"low">>), Str(<<"medium">>), Str(<<"high">>)}))
  => (resp.status = 400 /\ store = prev)

C6_Witness ==
  /\ req.op = "create"
  /\ req.body.title = Str(<<" ", "\t">>)
  /\ resp.status = 400
  /\ store = prev

\* C7: a successful create answers 201 with the persisted record: title
\* trimmed, completed false, priority as supplied or medium, description,
\* dueDate and tags defaulted when omitted, createdAt = updatedAt; and List
\* returns that record.
C7_CreateResult ==
  (req.op = "create" /\ resp.status < 400)
  => /\ resp.status = 201
     /\ resp.body.title.t = "str"
     /\ IsTrimOf(resp.body.title.v, req.body.title.v)
     /\ resp.body.completed = Bool("false")
     /\ resp.body.priority =
          (IF req.body.priority = Undef THEN Str(<<"medium">>) ELSE req.body.priority)
     /\ (req.body.description = Undef => resp.body.description = Str(<<>>))
     /\ (req.body.dueDate = Undef => resp.body.dueDate = Null)
     /\ (req.body.tags = Undef => resp.body.tags = Arr(<<>>))
     /\ resp.body.createdAt = resp.body.updatedAt
     /\ resp.body.id \notin Ids(prev)
     /\ {TaskJson(r) : r \in SelectById(store, resp.body.id)} = {resp.body}
     /\ resp.body \in Listed(store)

C7_Witness ==
  /\ req.op = "create"
  /\ resp.status = 201
  /\ req.body.title = Str(<<" ", "a", " ">>)
  /\ resp.body.title = Str(<<"a">>)
  /\ resp.body \in Listed(store)

\* C8: every task in the table has a title that is a non-empty string
\* without leading or trailing white space, and an update that supplies an
\* empty or white-space-only title is rejected.
C8_TitleInvariant ==
  /\ \A i \in 1..Len(store) :
       LET title == store[i].title IN
       /\ title.t = "str"
       /\ title.v # <<>>
       /\ ~IsWhiteSpace(title.v[1])
       /\ ~IsWhiteSpace(title.v[Len(title.v)])
  /\ (req.op = "update" /\ req.body.title.t = "str" /\ AllWhiteSpace(req.body.title.v))
       => Rejected

C8_Witness ==
  /\ req.op = "update"
  /\ req.id \in Ids(prev)
  /\ req.body.title = Str(<<" ">>)
  /\ resp.status = 400
  /\ store = prev

\* C9: every task in the table has a priority in {low, medium, high}; create
\* and update reject any other supplied priority, null included, and a
\* create without priority yields medium.
C9_PriorityInvariant ==
  /\ \A i \in 1..Len(store) :
       store[i].priority \in {Str(<<"low">>), Str(<<"medium">>), Str(<<"high">>)}
  /\ (/\ req.op \in {"create", "update"}
      /\ req.body.priority # Undef
      /\ req.body.priority \notin {Str(<<"low">>), Str(<<"medium">>), Str(<<"high">>)})
       => Rejected
  /\ (req.op = "create" /\ resp.status = 201 /\ req.body.priority = Undef)
       => resp.body.priority = Str(<<"medium">>)

C9_Witness ==
  /\ req.op = "update"
  /\ req.id \in Ids(prev)
  /\ req.body.priority = Null
  /\ resp.status = 400
  /\ store = prev

\* C10 (as claimed): every task in the table has a dueDate that is null or
\* parses as a date; create and update reject every dueDate that is
\* present, non-null and unparsable; a null dueDate is stored as null.
C10_DueDateInvariant ==
  /\ \A i \in 1..Len(store) :
       store[i].dueDate = Null
       \/ (store[i].dueDate.t = "str" /\ DateParse(store[i].dueDate) # NaN)
  /\ (/\ req.op \in {"create", "update"}
      /\ req.body.dueDate.t = "str"
      /\ DateParse(req.body.dueDate) = NaN)
       => Rejected
  /\ (req.op = "create" /\ resp.status = 201 /\ req.body.dueDate = Null)
       => resp.body.dueDate = Null

\* C11 (as claimed): in every task returned by List, Create, Update and
\* Toggle, tags is a sequence and completed is a boolean.
C11_TagsSequenceCompletedBoolean ==
  /\ (req.op \in {"create", "update", "toggle"} /\ resp.status < 400)
       => (resp.body.tags.t = "arr" /\ resp.body.completed.t = "bool")
  /\ req.op = "list"
       => \A i \in 1..Len(resp.body) :
            resp.body[i].tags.t = "arr" /\ resp.body[i].completed.t = "bool"

\* The row of the table st with the given id (there is one).
RowOf(st, id) == CHOOSE r \in SelectById(st, id) : TRUE

\* The rows of st other than the row with the given id, in order.
OtherRows(st, id) == SelectSeq(st, LAMBDA r : r.id # id)

\* C12: a successful update changes only the fields its body supplies and
\* updatedAt: every field among title, description, dueDate, priority, tags
\* and completed that the body omits keeps its value, and no other task
\* changes.
C12_UpdateFrame ==
  (req.op = "update" /\ resp.status < 400)
  => LET old == RowOf(prev, req.id)
         new == RowOf(store, req.id)
     IN /\ resp.status = 200
        /\ Len(store) = Len(prev)
        /\ OtherRows(store, req.id) = OtherRows(prev, req.id)
        /\ new.id = old.id
        /\ new.createdAt = old.createdAt
        /\ (req.body.title = Undef => new.title = old.title)
        /\ (req.body.description = Undef => new.description = old.description)
        /\ (req.body.dueDate = Undef => new.dueDate = old.dueDate)
        /\ (req.body.priority = Undef => new.priority = old.priority)
        /\ (req.body.tags = Undef => new.tags = old.tags)
        /\ (req.body.completed = Undef => new.completed = old.completed)
        /\ resp.body = TaskJson(new)

\* {priority: 'low'} on the first sample task, which has a due date
C12_Witness ==
  /\ req.op = "update"
  /\ req.id = 1
  /\ req.body = [EmptyBody EXCEPT !.priority = Low]
  /\ resp.status = 200
  /\ RowOf(store, 1).priority = Low
  /\ RowOf(prev, 1).priority = High
  /\ RowOf(store, 1).dueDate = Str(DateTomorrow)
  /\ RowOf(store, 1).title = RowOf(prev, 1).title

C14_IdCreatedAtImmutable ==
  /\ \A i, j \in 1..Len(store) : store[i].id = store[j].id => i = j
  /\ \A i \in 1..Len(prev), j \in 1..Len(store) :
       store[j].id = prev[i].id => store[j].createdAt = prev[i].createdAt
  /\ req.op \in {"update", "toggle", "bulk"} => Ids(store) \subseteq Ids(prev)
  /\ (req.op \in {"update", "toggle"}
      \/ (req.op = "bulk" /\ req.body.action # "delete"))
       => /\ Len(store) = Len(prev)
          /\ \A i \in 1..Len(store) :
               /\ store[i].id = prev[i].id
               /\ store[i].createdAt = prev[i].createdAt

\* a successful update whose body carries an id and a createdAt of its own,
\* some time after the task was created
C14_Witness ==
  /\ req.op = "update"
  /\ req.body = BodyWithIdCreatedAt
  /\ resp.status = 200
  /\ req.id \in Ids(store)
  /\ RowOf(store, req.id).updatedAt > RowOf(store, req.id).createdAt
  /\ RowOf(store, req.id).createdAt # BodyWithIdCreatedAt.createdAt
  /\ resp.body.id = req.id

\* The row with its updatedAt left out of the comparison.
SansUpdatedAt(row) == [row EXCEPT !.updatedAt = 0]

\* C15: a successful toggle returns completed as the negation of the value
\* stored before it and leaves title, description, dueDate, priority and
\* tags alone; toggling a task twice, with nothing between, gives back its
\* original completed and the same other fields.
C15_ToggleInvolution ==
  /\ (req.op = "toggle" /\ resp.status < 400)
       => LET old == RowOf(prev, req.id)
              new == RowOf(store, req.id)
          IN /\ resp.status = 200
             /\ resp.body.completed
                  = (IF old.completed = 0 THEN Bool("true") ELSE Bool("false"))
             /\ new.completed = 1 - old.completed
             /\ SansUpdatedAt([new EXCEPT !.completed = old.completed])
                  = SansUpdatedAt(old)
             /\ OtherRows(store, req.id) = OtherRows(prev, req.id)
  /\ \A id \in Ids(store) :
       LET once  == PatchToggle(store, clock, id)
           twice == PatchToggle(once.store, clock, id)
       IN /\ once.status = 200 /\ twice.status = 200
          /\ twice.body.completed = TaskJson(RowOf(store, id)).completed
          /\ twice.body.completed # once.body.completed
          /\ SansUpdatedAt(RowOf(twice.store, id)) = SansUpdatedAt(RowOf(store, id))
          /\ OtherRows(twice.store, id) = OtherRows(store, id)

\* the second of two toggles of the first sample task, one after the other
C15_Witness ==
  /\ req.op = "toggle"
  /\ req.id = 1
  /\ resp.status = 200
  /\ nreq = 2
  /\ RowOf(prev, 1).completed = 1
  /\ resp.body.completed = Bool("false")
  /\ RowOf(store, 1).title = initialTasks[1].title
  /\ RowOf(store, 1).tags = initialTasks[1].tags

\* C16 (as claimed): every successful toggle and update sets updatedAt
\* strictly greater than the updatedAt the task had before, however close
\* together two requests are (stated for a task created through the API).
C16_UpdatedAtStrictlyIncreases ==
  (/\ req.op \in {"toggle", "update"}
   /\ resp.status = 200
   /\ req.id \notin Ids(initialTasks))
  => RowOf(store, req.id).updatedAt > RowOf(prev, req.id).updatedAt

\* C17: delete of an id that exists answers 200 and removes that record and
\* no other: no List returns it and every other record is as it was; delete
\* of an id that does not exist, one already deleted included, answers 404
\* and leaves the store as it was.
C17_Delete ==
  req.op = "delete"
  => IF req.id \in Ids(prev)
       THEN /\ resp.status = 200
            /\ req.id \notin Ids(store)
            /\ \A q \in Queries :
                 \A i \in 1..Len(GetTasks(store, q).body) :
                   GetTasks(store, q).body[i].id # req.id
            /\ Len(store) = Len(prev) - 1
            /\ \A i \in 1..Len(prev) :
                 prev[i].id # req.id => \E j \in 1..Len(store) : store[j] = prev[i]
            /\ store = OtherRows(prev, req.id)
       ELSE resp.status = 404 /\ store = prev

\* a second delete of the first sample task, which the first one removed
C17_Witness ==
  /\ req.op = "delete"
  /\ req.id = 1
  /\ 1 \notin Ids(prev)
  /\ Len(prev) = Len(initialTasks) - 1
  /\ resp.status = 404
  /\ store = prev

\* The ids of the list, as a set.
Requested(ids) == {ids[k] : k \in 1..Len(ids)}

C19_BulkRejects ==
  (/\ req.op = "bulk"
   /\ \/ req.body.taskIds.t # "arr"
      \/ req.body.taskIds.v = <<>>
      \/ req.body.action \notin {"complete", "uncomplete", "delete"})
  => (resp.status = 400 /\ store = prev)

\* complete over the empty list
C19_Witness ==
  /\ req.op = "bulk"
  /\ req.body = [action |-> "complete", taskIds |-> Arr(<<>>)]
  /\ resp.status = 400
  /\ store = prev

\* The row satisfies the status and priority filters of the query.
Satisfies(row, q) ==
  /\ q.status = Str(<<"active">>) => row.completed = 0
  /\ q.status = Str(<<"completed">>) => row.completed # 0
  /\ q.priority \in PRIORITIES => row.priority = q.priority

\* C20: List returns exactly the stored tasks that satisfy all the supplied
\* filters together (status active: completed false; status completed:
\* completed true; priority: that priority); an absent status or status all
\* restricts nothing; List never modifies the store.
C20_ListFilters ==
  req.op = "list"
  => LET q == req.body
     IN /\ resp.status = 200
        /\ store = prev
        /\ \A i, j \in 1..Len(resp.body) :
             resp.body[i].id = resp.body[j].id => i = j
        /\ \A i \in 1..Len(resp.body) :
             LET t == resp.body[i]
             IN /\ t.id \in Ids(store)
                /\ t = TaskJson(RowOf(store, t.id))
                /\ q.status = Str(<<"active">>) => t.completed = Bool("false")
                /\ q.status = Str(<<"completed">>) => t.completed = Bool("true")
                /\ q.priority \in PRIORITIES => t.priority = q.priority
        /\ q.search = Undef
             => \A k \in 1..Len(store) :
                  Satisfies(store[k], q)
                    => \E i \in 1..Len(resp.body) : resp.body[i].id = store[k].id
        /\ (q.search = Undef /\ q.priority = Undef
            /\ q.status \in {Undef, Str(<<"all">>)})
             => Len(resp.body) = Len(store)

\* status completed with priority high, over a store holding a completed
\* high task, a completed task of another priority and an active task
C20_Witness ==
  /\ req.op = "list"
  /\ req.body = Query(Str(<<"completed">>), High, Undef, Undef)
  /\ resp.status = 200
  /\ Len(resp.body) = 1
  /\ resp.body[1].priority = High
  /\ resp.body[1].completed = Bool("true")
  /\ \E k \in 1..Len(store) : store[k].completed = 1 /\ store[k].priority # High
  /\ \E k \in 1..Len(store) : store[k].completed = 0

\* s occurs in text as a substring, the case of letters set aside.
ContainsIgnoringCase(text, s) ==
  \E a \in 0..(Len(text) - Len(s)) :
    \A k \in 1..Len(s) : Fold(text[a + k]) = Fold(s[k])

\* C21 (as claimed): List with a non-empty search string s returns every
\* stored task whose title or description contains s as a case-insensitive
\* substring and no task whose title and description both lack it, for
\* every s; when nothing matches the answer is 200 with the empty array.
C21_SearchSubstring ==
  (req.op = "list" /\ req.body.search.t = "str" /\ req.body.search.v # <<>>
   /\ req.body.status = Undef /\ req.body.priority = Undef)
  => LET s == req.body.search.v
     IN /\ resp.status = 200
        /\ \A k \in 1..Len(store) :
             (\E i \in 1..Len(resp.body) : resp.body[i].id = store[k].id)
               <=> (\/ ContainsIgnoringCase(store[k].title.v, s)
                    \/ ContainsIgnoringCase(store[k].description.v, s))

\* The default-sort List output over the current store.
DefaultList == GetTasks(store, NoFilter).body

\* C22 (as claimed): in the default-sort List output every task with a
\* non-null dueDate precedes every task with a null dueDate, and the tasks
\* with a non-null dueDate are in ascending chronological order of their
\* due dates, for all dueDate values that Create and Update accept.
C22_DueDatesChronological ==
  LET out == DefaultList
  IN \A i, j \in 1..Len(out) :
       i < j =>
         LET a == out[i].dueDate
             b == out[j].dueDate
         IN /\ a = Null => b = Null
            /\ (a # Null /\ b # Null /\ DateParse(a) # NaN /\ DateParse(b) # NaN)
                 => DateParse(a) <= DateParse(b)

\* Rank of a priority in the order high, medium, low.
PriorityRank(p) == IF p = High THEN 1 ELSE IF p = Medium THEN 2 ELSE 3

\* In the List output the task a may precede the task b by priority, then
\* by createdAt, newest first.
ByPriorityThenNewest(a, b) ==
  /\ PriorityRank(a.priority) <= PriorityRank(b.priority)
  /\ a.priority = b.priority => a.createdAt >= b.createdAt

\* C23 (as claimed): in the default-sort List output the group of tasks with
\* a due date and the group of tasks without one are each ordered by
\* priority, high before medium before low, and by createdAt, newest first,
\* among tasks of equal priority (tasks stored with the due date '' set
\* aside).
C23_GroupsByPriority ==
  LET out == DefaultList
  IN \A i, j \in 1..Len(out) :
       (/\ i < j
        /\ out[i].dueDate = Null <=> out[j].dueDate = Null
        /\ out[i].dueDate # Str(<<>>)
        /\ out[j].dueDate # Str(<<>>))
         => ByPriorityThenNewest(out[i], out[j])

\* C23 (amended): in the default-sort List output the tasks without a due
\* date are ordered by priority, high before medium before low, then by
\* createdAt, newest first; the tasks with a due date are ordered by due
\* date first, and only those with the same due date are ordered among
\* themselves by priority, then by createdAt, newest first.
C23_PriorityWithinEqualDueDate ==
  LET out == DefaultList
  IN \A i, j \in 1..Len(out) :
       (i < j /\ out[i].dueDate = out[j].dueDate)
         => ByPriorityThenNewest(out[i], out[j])

\* a default-sort List whose output has a medium task with a due date ahead
\* of a high task with a later one, and the tasks without a due date after
\* them, medium before low
C23_Witness ==
  /\ req.op = "list"
  /\ req.body = NoFilter
  /\ resp.body = DefaultList
  /\ Len(resp.body) = 4
  /\ resp.body[1].dueDate = Str(DateUtc) /\ resp.body[1].priority = Medium
  /\ resp.body[2].dueDate = Str(DateTomorrow) /\ resp.body[2].priority = High
  /\ resp.body[3].dueDate = Null /\ resp.body[3].priority = Medium
  /\ resp.body[4].dueDate = Null /\ resp.body[4].priority = Low

\* The completed column of the row with the given id.
CompletedOf(st, id) == RowOf(st, id).completed

\* C27: every handler reads and writes the store in one step, after the
\* requests handled before it and before those handled after it.  So each of
\* k toggle requests for one existing id succeeds and flips the value the
\* one before it left (after k of them completed is the original flipped k
\* times, here for k up to 3), and a delete and a toggle of one id, in
\* either order, leave no record under the id.
C27_HandlersDoNotInterleave ==
  /\ (req.op = "toggle" /\ req.id \in Ids(prev))
       => /\ resp.status = 200
          /\ CompletedOf(store, req.id) = 1 - CompletedOf(prev, req.id)
  /\ (req.op = "toggle" /\ req.id \notin Ids(prev))
       => (resp.status = 404 /\ req.id \notin Ids(store))
  /\ (req.op = "delete" /\ req.id \in Ids(prev))
       => (resp.status = 200 /\ req.id \notin Ids(store))
  /\ \A id \in Ids(store) :
       LET t1 == PatchToggle(store, clock, id)
           t2 == PatchToggle(t1.store, clock, id)
           t3 == PatchToggle(t2.store, clock, id)
           d  == DeleteTask(store, id)
       IN /\ t1.status = 200 /\ t2.status = 200 /\ t3.status = 200
          /\ CompletedOf(t1.store, id) = 1 - CompletedOf(store, id)
          /\ CompletedOf(t2.store, id) = CompletedOf(store, id)
          /\ CompletedOf(t3.store, id) = 1 - CompletedOf(store, id)
          /\ id \notin Ids(DeleteTask(t1.store, id).store)
          /\ PatchToggle(d.store, clock, id).status = 404
          /\ id \notin Ids(PatchToggle(d.store, clock, id).store)

\* a toggle of the first sample task handled after the request that deleted
\* it: 404, and no record under the id
C27_Witness ==
  /\ req.op = "toggle"
  /\ req.id = 1
  /\ nreq = 2
  /\ 1 \notin Ids(prev)
  /\ resp.status = 404
  /\ 1 \notin Ids(store)
  /\ Len(store) = Len(initialTasks) - 1

\* C30 (as claimed): a bulk request answered with an error (400 or 500) has
\* modified or deleted no task of the store, also when the failure occurs
\* on an id that is not the first of the list.
C30_BulkAllOrNothing ==
  (req.op = "bulk" /\ resp.status >= 400) => store = prev

(***************************************************************************)
(* Properties of the hook (checked under SpecHook).                        *)
(***************************************************************************)
\* The Task API's list for the hook's active filters.
ServerList == GetTasks(store, getTasks(FilterParams(filters))).body

\* C1 (as claimed): when add, update, toggle or delete has issued its API
\* request, the change is already in the local list: the new task is at the
\* head of the list while the create request is pending, an updated or
\* toggled task is patched in place, a deleted task is gone.
C1_OptimisticBeforeRequest ==
  (ev.kind = "started" /\ ev.call \in net /\ ev.call.phase = "sent")
  => CASE ev.call.op = "create" ->
            /\ Len(tasks) = Len(ev.before) + 1
            /\ tasks[1].title = ev.call.body.title
            /\ Tail(tasks) = ev.before
       [] ev.call.op = "update" ->
            tasks = [i \in 1..Len(ev.before) |->
                       IF ev.before[i].id = ev.call.id
                         THEN Patched(ev.before[i], ev.call.body)
                         ELSE ev.before[i]]
       [] ev.call.op = "toggle" ->
            tasks = [i \in 1..Len(ev.before) |->
                       IF ev.before[i].id = ev.call.id
                         THEN Flipped(ev.before[i]) ELSE ev.before[i]]
       [] ev.call.op = "delete" -> tasks = Removed(ev.before, ev.call.id)
       [] OTHER -> TRUE

\* C2 (as claimed): when the failure handling of a failed update, toggle or
\* delete has finished, the local list (loaded before) equals the Task
\* API's list for the active filters, whether the refetch succeeded or not.
C2_RollbackRestoresServerList ==
  (/\ ev.kind = "done"
   /\ ev.call.cause = "rollback"
   /\ ev.call.parent.op \in {"update", "toggle", "delete"}
   /\ tasks # <<>>)
  => tasks = ServerList

\* C3 (as claimed): when the failure handling of a failed mutation has
\* finished (for update, toggle and delete: when the refetch has returned),
\* the hook's error state holds the message of the failed mutation.
C3_ErrorHoldsMutationMessage ==
  /\ (ev.kind = "done" /\ ev.call.op = "create" /\ Threw(ev.call))
       => error = Str(<<Message(ev.call)>>)
  /\ (ev.kind = "done" /\ ev.call.cause = "rollback")
       => error = Str(<<ev.call.parent.msg>>)

\* C4 (as claimed): when no request is in flight and no call of the API
\* client has failed, every task of the local list equals the record the
\* table holds under the same id.
C4_LocalEqualsStore ==
  (net = {} /\ failed = 0)
  => \A i \in 1..Len(tasks) :
       \A row \in SelectById(store, tasks[i].id) : tasks[i] = TaskJson(row)

\* C5: the result of every list fetch that returns is put in the local list,
\* whether or not the filters it was made for are still the active ones
\* (there is no request-id guard) ...
C5_FetchAppliedUnguarded ==
  (ev.kind = "done" /\ ev.call.op = "list" /\ ~Threw(ev.call))
  => tasks = ev.call.reply

\* ... so that the fetch made for superseded filters, returning last, leaves
\* the local list, with no request in flight, as the result for filters that
\* are no longer the active ones.
C5_Witness ==
  /\ net = {}
  /\ calls > 0
  /\ ev.kind = "done"
  /\ ev.call.op = "list"
  /\ ~Threw(ev.call)
  /\ ev.call.filters # filters
  /\ tasks = GetTasks(store, getTasks(FilterParams(ev.call.filters))).body
  /\ tasks # ServerList

\* The query the claim derives from a filter configuration: status left out
\* when it is all, priority and search left out when empty, sortBy sent.
DerivedQuery(fs) ==
  Query(IF fs.status = Str(<<"all">>) THEN Undef ELSE fs.status,
        IF fs.priority \in {Null, Str(<<>>)} THEN Undef ELSE fs.priority,
        IF fs.search = Str(<<>>) THEN Undef ELSE fs.search,
        fs.sortBy)

\* C24: whenever updateFilters or clearFilters sets the filter and sort
\* configuration, a list refresh is issued in the same step with the query
\* derived from the new configuration; when that refresh returns and no
\* other request completes after it, the local list is its result.
C24_FilterChangeRefreshes ==
  /\ [][changes' # changes
          => \E c \in net' \ net :
               /\ c.op = "list"
               /\ c.phase = "sent"
               /\ c.body = DerivedQuery(filters')
               /\ loading']_vars
  /\ []((/\ ev.kind = "done"
         /\ ev.call.op = "list"
         /\ ev.call.cause = "effect"
         /\ ev.call.n > 0
         /\ ~Threw(ev.call))
        => (/\ tasks = ev.call.reply
            /\ ev.call.body = DerivedQuery(ev.call.filters)))

\* the refresh issued by updateFilters({status: 'active'}) has returned last
C24_Witness ==
  /\ net = {}
  /\ ev.kind = "done"
  /\ ev.call.op = "list"
  /\ ev.call.cause = "effect"
  /\ ev.call.n > 0
  /\ ~Threw(ev.call)
  /\ filters.status = Str(<<"active">>)
  /\ ev.call.filters = filters
  /\ ev.call.body = Query(Str(<<"active">>), Undef, Undef, Str(<<"default">>))
  /\ tasks = ev.call.reply
  /\ tasks = ServerList
  /\ Len(tasks) = 3

\* C25: a bulk action issued through the hook makes no change of its own to
\* the local list, neither when it sends its request nor when the answer
\* arrives; when the server has confirmed it, the hook issues a list
\* refetch, and the result of that refetch, when it returns, replaces the
\* local list.
C25_BulkRefetches ==
  /\ [][(\E c \in net' \ net : c.op = "bulk" /\ c.phase = "sent")
          => tasks' = tasks]_vars
  /\ [][\A c \in net :
          (c.op = "bulk" /\ c.phase # "sent" /\ c \notin net')
            => /\ tasks' = tasks
               /\ ~Threw(c)
                    => \E f \in net' \ net :
                         /\ f.op = "list"
                         /\ f.phase = "sent"
                         /\ f.cause = "bulk"
                         /\ f.body = getTasks(FilterParams(c.filters))
                         /\ loading']_vars
  /\ []((/\ ev.kind = "done"
         /\ ev.call.op = "list"
         /\ ev.call.cause = "bulk"
         /\ ~Threw(ev.call))
        => tasks = ev.call.reply)

\* the refetch after bulk complete over tasks 1 and 2 has returned: both are
\* completed in the local list, which is the server's list
C25_Witness ==
  /\ net = {}
  /\ ev.kind = "done"
  /\ ev.call.op = "list"
  /\ ev.call.cause = "bulk"
  /\ ~Threw(ev.call)
  /\ tasks = ev.call.reply
  /\ tasks = ServerList
  /\ Len(tasks) = 3
  /\ \A i \in 1..3 : tasks[i].id \in {1, 2} => tasks[i].completed = Bool("true")
  /\ \E i \in 1..3 : tasks[i].id = 1

\* C26 (as claimed): when a toggle made through the hook under the active
\* filters has succeeded and no request is in flight, the local list holds
\* no task whose completed value contradicts a status filter: none completed
\* under status active, none uncompleted under status completed.
C26_ToggleRespectsFilter ==
  (/\ ev.kind = "done"
   /\ ev.call.op = "toggle"
   /\ ~Threw(ev.call)
   /\ ev.call.filters = filters
   /\ net = {})
  => \A i \in 1..Len(tasks) :
       /\ filters.status = Str(<<"active">>) => tasks[i].completed = Bool("false")
       /\ filters.status = Str(<<"completed">>) => tasks[i].completed = Bool("true")

\* C28 (as claimed): when deleteTask(id) through the hook has succeeded and
\* no request is in flight any more, the local list does not hold the
\* deleted task, whatever list refresh was in flight meanwhile.
C28_DeletedTaskGone ==
  (/\ ev.kind = "done"
   /\ ev.call.op = "delete"
   /\ ~Threw(ev.call)
   /\ net = {})
  => \A i \in 1..Len(tasks) : tasks[i].id # ev.call.id

\* C29 (as claimed): the loading flag is true whenever at least one list
\* fetch started by fetchTasks has not returned yet, and false when none is
\* in flight, overlapping fetches included.
C29_LoadingIffFetchInFlight ==
  loading <=> (\E c \in net : c.op = "list")

====
